---- MODULE Spec2Model ----
(***************************************************************************)
(* cargo-goggles: verification of crates.io packages against a rebuild of  *)
(* their source repository.                                                 *)
(*                                                                          *)
(* The module holds one state machine per component:                        *)
(*   SpecReader   io.rs       AsciiWhitespaceSkippingReader::read           *)
(*   SpecCompare  package.rs  PackageContents::compare, and main.rs's own   *)
(*                            hashing filter and comparison loops           *)
(*   SpecTags     git.rs      GitTags::find_tag_for_version, and main.rs's  *)
(*                            own candidate list                            *)
(*   SpecObtain   registry.rs RegistryCrate::obtain run by several workers  *)
(*   SpecUrl      git.rs      TryFrom<Url> for GitUrl, and main.rs's own    *)
(*                            normalization                                 *)
(*   Spec         main.rs     the per-package loop of main                  *)
(* Every specification leaves the variables of the others at their idle     *)
(* values.                                                                  *)
(***************************************************************************)
EXTENDS Integers, Sequences, FiniteSets, TLC

VARIABLES
    \* io.rs: the reader under test
    rdChunks,       \* the chunks the underlying reader hands out, in order
    rdInner,        \* the BufReader: [buf: unread buffered bytes, rest: chunks to come]
    rdOut,          \* every byte delivered so far by read
    rdDone,         \* a read has returned 0
    \* package.rs / main.rs: the comparison under test
    cmpLeft,        \* the rebuilt archive: path -> digest of the entry
    cmpRight,       \* the registry archive: path -> digest of the entry
    cmpResult,      \* PackageContents::compare(left, right), collected
    cmpSwapped,     \* PackageContents::compare(right, left), collected
    cmpLines,       \* the lines main.rs prints for the pair
    cmpPc,
    \* git.rs / main.rs: the tag matching under test
    tgTags,         \* the tag names of the repository
    tgName,         \* the package name
    tgVersion,      \* the package version: [core, pre, build]
    tgResult,       \* GitTags::find_tag_for_version's result
    tgMainResult,   \* main.rs's possible_tags.iter().find(..) result
    tgOther,        \* the candidates and results for the version with other build
                    \* metadata
    tgPc,
    \* registry.rs: the cache directory shared by the workers that obtain one crate
    obDir,          \* crate_dir exists
    obFinal,        \* the file at crate_path: its inode, 0 when there is none
    obTmp,          \* the file at tmp_crate_path: its inode, 0 when there is none
    obData,         \* inode -> its bytes, one element per chunk (0: a hole of zeroes)
    obPc,           \* worker -> where it is in obtain
    obFd,           \* worker -> its open tmp_crate_file: [ino, off]
    \* main.rs: the run of main
    mPc,            \* where main is
    mExit,          \* "running", or how the process ended: "ok" | "error"
    mErr,           \* the error main returned
    mLockLen,       \* lock.packages.len()
    mIdx,           \* the package of the lock file the loop is at (0 before the first)
    mCur,           \* the locals of the loop body, with the lines it printed and the
                    \* commands it ran for the package
    mCrates,        \* name -> the archive at crates/{name}/{version}.tar.gz
    mRepos,         \* directory under repositories/ -> the clone in it: the URL it
                    \* was cloned from and its tags
    mBuilt,         \* <<repo_dir, name>> -> the commit the file at
                    \* target/package/{name}-{version}.crate was built at
    mBusy,          \* <<repo_dir, index>>: the checkout/build sequences that have
                    \* started and have not ended
    mOrder,         \* <<repo_dir, index>> of every checkout, in the order they started
    mTagRuns,       \* the repository of every `git tag` of the run, in their order
    \* git.rs / main.rs: the normalization of a repository URL
    uRaw,           \* the Url handed to GitUrl::try_from
    uResult,        \* GitUrl::try_from(uRaw)
    uAgain,         \* GitUrl::try_from of the Url inside uResult
    uMain,          \* what main.rs 215-236 makes of uRaw
    uVariant,       \* another Url of the same owner and repository name, and what
                    \* GitUrl::try_from makes of it
    uPc

rdVars == <<rdChunks, rdInner, rdOut, rdDone>>
cmpVars == <<cmpLeft, cmpRight, cmpResult, cmpSwapped, cmpLines, cmpPc>>
tgVars == <<tgTags, tgName, tgVersion, tgResult, tgMainResult, tgOther, tgPc>>
obVars == <<obDir, obFinal, obTmp, obData, obPc, obFd>>
mVars == <<mPc, mExit, mErr, mLockLen, mIdx, mCur, mCrates, mRepos, mBuilt, mBusy, mOrder,
          mTagRuns>>
uVars == <<uRaw, uResult, uAgain, uMain, uVariant, uPc>>
vars == <<rdVars, cmpVars, tgVars, obVars, mVars, uVars>>

\* Option<T>: None is the empty sequence, Some(x) the one-element sequence.
None == <<>>
Some(x) == <<x>>
IsSome(o) == o # <<>>
Unwrap(o) == o[1]

(***************************************************************************)
(* io.rs: AsciiWhitespaceSkippingReader                                     *)
(***************************************************************************)

\* Bounds of the reader's inputs.
MaxInputLen == 3
MaxBufLen == 2

\* The bytes the inputs are made of: LF, VT (not ASCII whitespace for Rust),
\* space, 'a'.
ByteAlphabet == {10, 11, 32, 97}

\* u8::is_ascii_whitespace: space, tab, line feed, form feed, carriage return.
IsAsciiWhitespace(b) == b \in {9, 10, 12, 13, 32}

\* BufRead::fill_buf of std's BufReader: the unread part of the current chunk, a
\* new chunk from the underlying reader when that part is empty, empty at EOF.
FillBuf(r) ==
    IF r.buf = <<>> /\ r.rest # <<>>
    THEN [buf |-> Head(r.rest), rest |-> Tail(r.rest)]
    ELSE r

\* BufRead::consume.
Consume(r, n) == [r EXCEPT !.buf = SubSeq(r.buf, n + 1, Len(r.buf))]

\* The inner while loop of read: bytes of read_buf are taken while there is
\* room in the destination; whitespace is counted as read and not written.
RECURSIVE CopyLoop(_, _, _, _)
CopyLoop(read_buf, room, nread, acc) ==
    IF read_buf = <<>> \/ room = 0
    THEN [read |-> nread, bytes |-> acc]
    ELSE IF IsAsciiWhitespace(Head(read_buf))
         THEN CopyLoop(Tail(read_buf), room, nread + 1, acc)
         ELSE CopyLoop(Tail(read_buf), room - 1, nread + 1, Append(acc, Head(read_buf)))

\* The outer loop of read: until the destination is full or fill_buf is empty.
RECURSIVE ReadLoop(_, _, _)
ReadLoop(r, room, acc) ==
    IF room = 0
    THEN [inner |-> r, bytes |-> acc]
    ELSE LET f == FillBuf(r) IN
         IF f.buf = <<>>
         THEN [inner |-> f, bytes |-> acc]
         ELSE LET c == CopyLoop(f.buf, room, 0, <<>>) IN
              ReadLoop(Consume(f, c.read), room - Len(c.bytes), acc \o c.bytes)

\* A read that returns after the first fill_buf instead of looping.
readSingleFill(r, size) ==
    LET f == FillBuf(r) IN
    IF f.buf = <<>>
    THEN [inner |-> f, bytes |-> <<>>]
    ELSE LET c == CopyLoop(f.buf, size, 0, <<>>) IN
         [inner |-> Consume(f, c.read), bytes |-> c.bytes]

\* AsciiWhitespaceSkippingReader::read into a destination of `size` bytes.
read(r, size) == ReadLoop(r, size, <<>>)

\* Every way the underlying reader can hand out `s`: in non-empty chunks.
RECURSIVE Chunkings(_)
Chunkings(s) ==
    IF s = <<>>
    THEN {<<>>}
    ELSE UNION {{<<SubSeq(s, 1, k)>> \o c : c \in Chunkings(SubSeq(s, k + 1, Len(s)))}
                : k \in 1..Len(s)}

ReaderInputs == UNION {[1..n -> ByteAlphabet] : n \in 0..MaxInputLen}

RdIdle ==
    /\ rdChunks = <<>>
    /\ rdInner = [buf |-> <<>>, rest |-> <<>>]
    /\ rdOut = <<>>
    /\ rdDone = TRUE

RdInit ==
    \E s \in ReaderInputs : \E chunks \in Chunkings(s) :
        /\ rdChunks = chunks
        /\ rdInner = [buf |-> <<>>, rest |-> chunks]
        /\ rdOut = <<>>
        /\ rdDone = FALSE

\* One call of read by the consumer (io::copy stops at the first Ok(0)).
Read ==
    /\ ~rdDone
    /\ \E size \in 1..MaxBufLen :
        LET res == read(rdInner, size) IN
        /\ rdInner' = res.inner
        /\ rdOut' = rdOut \o res.bytes
        /\ rdDone' = (Len(res.bytes) = 0)
    /\ UNCHANGED rdChunks

\* The bytes of the underlying file: the chunks, concatenated.
RECURSIVE Flatten(_)
Flatten(chunks) == IF chunks = <<>> THEN <<>> ELSE Head(chunks) \o Flatten(Tail(chunks))
RdInput == Flatten(rdChunks)

\* The input with every ASCII whitespace byte removed.
WithoutWhitespace(s) == SelectSeq(s, LAMBDA b : b \notin {9, 10, 12, 13, 32})

IsPrefix(s, t) == Len(s) <= Len(t) /\ SubSeq(t, 1, Len(s)) = s

\* C10: whatever the chunks and the destination sizes, the bytes delivered up to
\* the first zero-length read are the input bytes without the ASCII whitespace,
\* in order (and at every moment before a prefix of them).
C10_DeliveredIsInputWithoutWhitespace ==
    /\ IsPrefix(rdOut, WithoutWhitespace(RdInput))
    /\ rdDone => rdOut = WithoutWhitespace(RdInput)

\* C10's case: a chunk made only of whitespace lies before a byte that was
\* delivered, and the reader has reached its zero-length read.
C10_Witness ==
    /\ rdDone
    /\ Len(rdChunks) >= 2
    /\ \A k \in 1..Len(rdChunks[1]) : IsAsciiWhitespace(rdChunks[1][k])
    /\ rdOut # <<>>
    /\ Len(rdOut) < Len(RdInput)

(***************************************************************************)
(* package.rs: PackageContents::compare; main.rs: hashing and comparison    *)
(***************************************************************************)

\* Bound: entries per archive.
MaxEntries == 2

\* Archive paths (PathBuf as its components), in PathBuf's order.
PathOrder ==
    << <<"foo-1.0.0", ".cargo_vcs_info.json">>,
       <<"foo-1.0.0", "Cargo.toml">>,
       <<"foo-1.0.0", "Cargo.toml.orig">>,
       <<"foo-1.0.0", "cargo.toml">>,
       <<"foo-1.0.0", "extra.txt">>,
       <<"foo-1.0.0", "src", "lib.rs">>,
       <<"foo-1.0.0", "sub", "Cargo.toml">> >>
Paths == {PathOrder[k] : k \in 1..Len(PathOrder)}
Digests == {"d1", "d2"}

\* BTreeMap<PathBuf, digest> as a function on a set of paths.
ContentMaps ==
    UNION {[D -> Digests] : D \in {S \in SUBSET Paths : Cardinality(S) <= MaxEntries}}

\* BTreeMap iteration: the keys in order.
Keys(m) == SelectSeq(PathOrder, LAMBDA p : p \in DOMAIN m)

\* Path::file_name: the last component, None when the path ends in `..`.
file_name(path) ==
    IF path = <<>> \/ path[Len(path)] = ".." THEN None ELSE Some(path[Len(path)])

\* An ignore test that compares the whole path instead of the basename.
is_path_ignored_whole(path) ==
    path \in {<<".cargo_vcs_info.json">>, <<"Cargo.toml">>}

\* package.rs is_path_ignored.
is_path_ignored(path) ==
    /\ IsSome(file_name(path))
    /\ \E n \in {".cargo_vcs_info.json", "Cargo.toml"} : n = Unwrap(file_name(path))

\* The match of compare's first half: the outcome of a path of the left map.
LeftOutcome(left, right, p) ==
    IF p \in DOMAIN right
    THEN IF left[p] = right[p]
         THEN [kind |-> "Equal", path |-> p]
         ELSE [kind |-> "Different", path |-> p]
    ELSE [kind |-> "OnlyLeft", path |-> p]

\* A comparison whose second half forgets the ignore filter.
compare_unfiltered_right(left, right) ==
    LET ka == SelectSeq(Keys(left), LAMBDA p : ~is_path_ignored(p))
        kb == SelectSeq(Keys(right), LAMBDA p : p \notin DOMAIN left)
    IN [k \in 1..Len(ka) |-> LeftOutcome(left, right, ka[k])]
       \o [k \in 1..Len(kb) |-> [kind |-> "OnlyRight", path |-> kb[k]]]

\* PackageContents::compare: the iterator a.chain(b), collected.
compare(left, right) ==
    LET ka == SelectSeq(Keys(left), LAMBDA p : ~is_path_ignored(p))
        kb == SelectSeq(SelectSeq(Keys(right), LAMBDA p : ~is_path_ignored(p)),
                        LAMBDA p : p \notin DOMAIN left)
    IN [k \in 1..Len(ka) |-> LeftOutcome(left, right, ka[k])]
       \o [k \in 1..Len(kb) |-> [kind |-> "OnlyRight", path |-> kb[k]]]

\* Path::ends_with with a one-component argument: the last component is it.
PathEndsWith(path, name) == path # <<>> /\ path[Len(path)] = name

\* main.rs: the entries skipped while hashing an archive.
MainSkipped(path) ==
    \/ PathEndsWith(path, ".cargo_vcs_info.json")
    \/ PathEndsWith(path, "Cargo.toml")
    \/ PathEndsWith(path, "Cargo.toml.orig")

\* main.rs: the BTreeMap of hashes built from an archive.
MainHashes(archive) ==
    [p \in {q \in DOMAIN archive : ~MainSkipped(q)} |-> archive[p]]

\* A match that prints a line for equal digests too.
MainLeftLineForEqual(our_hashes, crates_io_hashes, p) ==
    IF p \in DOMAIN crates_io_hashes
    THEN <<[kind |-> "Different", path |-> p]>>
    ELSE <<[kind |-> "OnlyLeft", path |-> p]>>

\* main.rs: the match of the first comparison loop; Equal prints nothing.
MainLeftLine(our_hashes, crates_io_hashes, p) ==
    IF p \in DOMAIN crates_io_hashes
    THEN IF our_hashes[p] = crates_io_hashes[p]
         THEN <<>>
         ELSE <<[kind |-> "Different", path |-> p]>>
    ELSE <<[kind |-> "OnlyLeft", path |-> p]>>

RECURSIVE MainLeftLines(_, _, _)
MainLeftLines(our_hashes, crates_io_hashes, ks) ==
    IF ks = <<>>
    THEN <<>>
    ELSE MainLeftLine(our_hashes, crates_io_hashes, Head(ks))
         \o MainLeftLines(our_hashes, crates_io_hashes, Tail(ks))

\* main.rs: the lines of the two comparison loops.
MainCompareLines(our_hashes, crates_io_hashes) ==
    LET kb == SelectSeq(Keys(crates_io_hashes), LAMBDA p : p \notin DOMAIN our_hashes)
    IN MainLeftLines(our_hashes, crates_io_hashes, Keys(our_hashes))
       \o [k \in 1..Len(kb) |-> [kind |-> "OnlyRight", path |-> kb[k]]]

CmpIdle ==
    /\ cmpLeft = <<>>
    /\ cmpRight = <<>>
    /\ cmpResult = <<>>
    /\ cmpSwapped = <<>>
    /\ cmpLines = <<>>
    /\ cmpPc = "idle"

CmpInit ==
    /\ cmpLeft \in ContentMaps
    /\ cmpRight \in ContentMaps
    /\ cmpResult = <<>>
    /\ cmpSwapped = <<>>
    /\ cmpLines = <<>>
    /\ cmpPc = "start"

\* package.rs: compare(left, right) on the contents of the two archives.
Compare ==
    /\ cmpPc = "start"
    /\ cmpResult' = compare(cmpLeft, cmpRight)
    /\ cmpPc' = "compared"
    /\ UNCHANGED <<cmpLeft, cmpRight, cmpSwapped, cmpLines>>

\* package.rs: the same comparison with the arguments swapped.
CompareSwapped ==
    /\ cmpPc = "compared"
    /\ cmpSwapped' = compare(cmpRight, cmpLeft)
    /\ cmpPc' = "swapped"
    /\ UNCHANGED <<cmpLeft, cmpRight, cmpResult, cmpLines>>

\* main.rs: hash both archives and print the comparison.
MainCompare ==
    /\ cmpPc = "start"
    /\ cmpLines' = MainCompareLines(MainHashes(cmpLeft), MainHashes(cmpRight))
    /\ cmpPc' = "printed"
    /\ UNCHANGED <<cmpLeft, cmpRight, cmpResult, cmpSwapped>>

\* The paths for which a collected comparison holds an outcome of `kind`.
PathsOf(outcomes, kind) ==
    {outcomes[k].path : k \in {j \in 1..Len(outcomes) : outcomes[j].kind = kind}}

\* How many outcomes a collected comparison holds for `p`.
CountFor(outcomes, p) == Cardinality({k \in 1..Len(outcomes) : outcomes[k].path = p})

\* The one outcome the rule of comparison gives a path of the union.
ExpectedKind(left, right, p) ==
    IF p \in DOMAIN left /\ p \in DOMAIN right
    THEN IF left[p] = right[p] THEN "Equal" ELSE "Different"
    ELSE IF p \in DOMAIN left THEN "OnlyLeft" ELSE "OnlyRight"

\* C7: compare yields exactly one outcome for each non-ignored path of the union
\* of the two maps, of the kind the rule gives, and none for any other path; the
\* loops of main.rs print exactly one line for each path of the union of their
\* two hash maps that is not Equal, of that kind, and none for any other path.
C7_OneOutcomePerPath ==
    /\ cmpPc \in {"compared", "swapped"} =>
        \A p \in Paths :
            IF p \in (DOMAIN cmpLeft \cup DOMAIN cmpRight) /\ ~is_path_ignored(p)
            THEN /\ CountFor(cmpResult, p) = 1
                 /\ p \in PathsOf(cmpResult, ExpectedKind(cmpLeft, cmpRight, p))
            ELSE CountFor(cmpResult, p) = 0
    /\ cmpPc = "printed" =>
        LET ours == MainHashes(cmpLeft)
            theirs == MainHashes(cmpRight)
        IN \A p \in Paths :
            IF /\ p \in (DOMAIN ours \cup DOMAIN theirs)
               /\ ExpectedKind(ours, theirs, p) # "Equal"
            THEN /\ CountFor(cmpLines, p) = 1
                 /\ p \in PathsOf(cmpLines, ExpectedKind(ours, theirs, p))
            ELSE CountFor(cmpLines, p) = 0

\* C7's case (scenario D): extra.txt is in the rebuilt archive only, beside an
\* ignored path that is in one archive only, and the comparison has run.
C7_Witness ==
    /\ cmpPc = "compared"
    /\ <<"foo-1.0.0", "extra.txt">> \in DOMAIN cmpLeft \ DOMAIN cmpRight
    /\ <<"foo-1.0.0", "Cargo.toml">> \in DOMAIN cmpRight \ DOMAIN cmpLeft
    /\ cmpResult = <<[kind |-> "OnlyLeft", path |-> <<"foo-1.0.0", "extra.txt">>]>>

\* C8: compare(R, L) reports OnlyRight exactly where compare(L, R) reports
\* OnlyLeft and the other way round, Equal for exactly the same paths and
\* Different for exactly the same paths.
C8_CompareAntiSymmetric ==
    cmpPc = "swapped" =>
        /\ PathsOf(cmpSwapped, "OnlyRight") = PathsOf(cmpResult, "OnlyLeft")
        /\ PathsOf(cmpSwapped, "OnlyLeft") = PathsOf(cmpResult, "OnlyRight")
        /\ PathsOf(cmpSwapped, "Equal") = PathsOf(cmpResult, "Equal")
        /\ PathsOf(cmpSwapped, "Different") = PathsOf(cmpResult, "Different")
        /\ Len(cmpSwapped) = Len(cmpResult)

\* C8's case: both directions computed on maps with a path on the left only, a
\* path on the right only and an ignored path on one side only.
C8_Witness ==
    /\ cmpPc = "swapped"
    /\ PathsOf(cmpResult, "OnlyLeft") # {}
    /\ PathsOf(cmpSwapped, "OnlyLeft") # {}
    /\ \E p \in DOMAIN cmpLeft \ DOMAIN cmpRight : is_path_ignored(p)

\* The ignore-list as the specification words it: the basename is exactly the
\* VCS-hint filename or the manifest filename.
IgnoredBasename(p) == p[Len(p)] = ".cargo_vcs_info.json" \/ p[Len(p)] = "Cargo.toml"

\* C9: an entry is excluded from comparison if and only if its basename is
\* .cargo_vcs_info.json or Cargo.toml: compare gives an outcome to a path of the
\* two archives exactly when its basename is neither, and main.rs prints a line
\* for a path that is on one side only, or differs, exactly when its basename is
\* neither.
C9_ExcludedIffIgnoredBasename ==
    /\ cmpPc \in {"compared", "swapped"} =>
        \A p \in DOMAIN cmpLeft \cup DOMAIN cmpRight :
            (CountFor(cmpResult, p) = 0) <=> IgnoredBasename(p)
    /\ cmpPc = "printed" =>
        \A p \in DOMAIN cmpLeft \cup DOMAIN cmpRight :
            ExpectedKind(cmpLeft, cmpRight, p) # "Equal" =>
                ((CountFor(cmpLines, p) = 0) <=> IgnoredBasename(p))

\* The part of C9 that package.rs decides: compare alone follows the rule.
C9_CompareExcludesIffIgnoredBasename ==
    cmpPc \in {"compared", "swapped"} =>
        \A p \in DOMAIN cmpLeft \cup DOMAIN cmpRight :
            (CountFor(cmpResult, p) = 0) <=> IgnoredBasename(p)

(***************************************************************************)
(* git.rs: GitTags::find_tag_for_version; main.rs: find a matching tag      *)
(***************************************************************************)

\* semver::Version as [core, pre, build]; Display prints core, then `-pre` and
\* `+build` when they are not empty.
VersionToString(v) ==
    v.core \o (IF v.pre = "" THEN "" ELSE "-" \o v.pre)
           \o (IF v.build = "" THEN "" ELSE "+" \o v.build)

\* A clean_version that keeps the build metadata.
CleanVersionKeepsBuild(version) == version

\* clean_version: the version with build = BuildMetadata::EMPTY.
CleanVersion(version) == [version EXCEPT !.build = ""]

\* A candidate list that tries the version-only forms first.
possible_tags_version_first(name, clean_version) ==
    LET v == VersionToString(clean_version) IN
    << "v" \o v, v, "v/" \o v,
       name \o "-v" \o v, name \o "-" \o v, name \o "_v" \o v, name \o "_" \o v,
       name \o "/v" \o v, name \o "v/" \o v, name \o "/" \o v,
       name \o "@v" \o v, name \o "@" \o v >>

\* git.rs: possible_tags.
possible_tags(name, clean_version) ==
    LET v == VersionToString(clean_version) IN
    << name \o "-v" \o v, name \o "-" \o v, name \o "_v" \o v, name \o "_" \o v,
       name \o "/v" \o v, name \o "v/" \o v, name \o "/" \o v,
       name \o "@v" \o v, name \o "@" \o v,
       "v" \o v, v, "v/" \o v >>

\* main.rs: possible_tags.
main_possible_tags(name, clean_version) ==
    LET v == VersionToString(clean_version) IN
    << name \o "-v" \o v, name \o "-" \o v,
       name \o "/v" \o v, name \o "v/" \o v, name \o "/" \o v,
       "v" \o v, v, "v/" \o v >>

\* Iterator::find / find_map over the candidates: the first one in the tag set.
RECURSIVE FindFirst(_, _)
FindFirst(candidates, tags) ==
    IF candidates = <<>>
    THEN None
    ELSE IF Head(candidates) \in tags
         THEN Some(Head(candidates))
         ELSE FindFirst(Tail(candidates), tags)

\* GitTags::find_tag_for_version.
find_tag_for_version(tags, name, version) ==
    FindFirst(possible_tags(name, CleanVersion(version)), tags)

\* main.rs: possible_tags.iter().find(|t| tags.contains(t)).
main_find_tag(tags, name, version) ==
    FindFirst(main_possible_tags(name, CleanVersion(version)), tags)

TagNames == {"foo", "bar"}
TagVersions ==
    { [core |-> "1.2.3", pre |-> "", build |-> ""],
      [core |-> "1.2.3", pre |-> "", build |-> "buildXYZ"],
      [core |-> "1.0.0", pre |-> "rc.1", build |-> ""] }
TagUniverse ==
    { "foo-v1.2.3", "foo_v1.2.3", "foo@1.2.3", "foov/1.2.3", "bar-1.2.3",
      "v1.2.3", "1.2.3", "v/1.2.3", "v1.2.3+buildXYZ", "v1.0.0-rc.1", "release" }

TgIdle ==
    /\ tgTags = {}
    /\ tgName = ""
    /\ tgVersion = [core |-> "", pre |-> "", build |-> ""]
    /\ tgResult = None
    /\ tgMainResult = None
    /\ tgOther = None
    /\ tgPc = "idle"

TgInit ==
    /\ tgTags \in SUBSET TagUniverse
    /\ tgName \in TagNames
    /\ tgVersion \in TagVersions
    /\ tgResult = None
    /\ tgMainResult = None
    /\ tgOther = None
    /\ tgPc = "start"

\* git.rs: tags.find_tag_for_version(name, version).
FindTag ==
    /\ tgPc = "start"
    /\ tgResult' = find_tag_for_version(tgTags, tgName, tgVersion)
    /\ tgPc' = "found"
    /\ UNCHANGED <<tgTags, tgName, tgVersion, tgMainResult, tgOther>>

\* main.rs: the match over possible_tags.
MainFindTag ==
    /\ tgPc = "start"
    /\ tgMainResult' = main_find_tag(tgTags, tgName, tgVersion)
    /\ tgPc' = "main_found"
    /\ UNCHANGED <<tgTags, tgName, tgVersion, tgResult, tgOther>>

\* The build metadata of the versions.
BuildMetadata == {"", "buildXYZ", "nightly"}

\* The same name and tags, the version with other build metadata: the candidates
\* and the match of git.rs and of main.rs.
FindTagOtherBuild ==
    /\ tgPc \in {"found", "main_found"}
    /\ \E build \in BuildMetadata \ {tgVersion.build} :
          LET version == [tgVersion EXCEPT !.build = build] IN
          tgOther' = Some([version |-> version, after |-> tgPc,
                           candidates |-> possible_tags(tgName, CleanVersion(version)),
                           result |-> find_tag_for_version(tgTags, tgName, version),
                           main_candidates |-> main_possible_tags(tgName, CleanVersion(version)),
                           main_result |-> main_find_tag(tgTags, tgName, version)])
    /\ tgPc' = "other"
    /\ UNCHANGED <<tgTags, tgName, tgVersion, tgResult, tgMainResult>>

\* The result is the first of `candidates` that is in `tags`, None when none is.
IsFirstPresent(result, candidates, tags) ==
    IF \A k \in 1..Len(candidates) : candidates[k] \notin tags
    THEN result = None
    ELSE /\ IsSome(result)
         /\ \E k \in 1..Len(candidates) :
                /\ candidates[k] = Unwrap(result)
                /\ candidates[k] \in tags
                /\ \A j \in 1..(k - 1) : candidates[j] \notin tags

\* The version-only forms of the specification: v{version}, {version}, v/{version}.
VersionOnlyForms(version) ==
    LET v == VersionToString([version EXCEPT !.build = ""]) IN {"v" \o v, v, "v/" \o v}

\* The result respects the precedence of the name-prefixed forms: it is a
\* version-only form only when no candidate outside those forms is in the tags.
NamePrefixedFirst(result, candidates, tags, version) ==
    (IsSome(result) /\ Unwrap(result) \in VersionOnlyForms(version)) =>
        \A k \in 1..Len(candidates) :
            candidates[k] \in tags => candidates[k] \in VersionOnlyForms(version)

\* C5: tag matching returns the first candidate of the fixed ordered list that is
\* in the tag set, name-prefixed forms before version-only forms, and no match
\* exactly when no candidate is in it; with tags {"foo-v1.2.3", "v1.2.3"}, name
\* foo and version 1.2.3 it returns "foo-v1.2.3".
C5_FirstCandidatePresent ==
    /\ tgPc = "found" =>
        /\ IsFirstPresent(tgResult, possible_tags(tgName, CleanVersion(tgVersion)), tgTags)
        /\ NamePrefixedFirst(tgResult, possible_tags(tgName, CleanVersion(tgVersion)),
                             tgTags, tgVersion)
        /\ (tgTags = {"foo-v1.2.3", "v1.2.3"} /\ tgName = "foo"
                /\ VersionToString(tgVersion) = "1.2.3")
            => tgResult = Some("foo-v1.2.3")
    /\ tgPc = "main_found" =>
        /\ IsFirstPresent(tgMainResult, main_possible_tags(tgName, CleanVersion(tgVersion)),
                          tgTags)
        /\ NamePrefixedFirst(tgMainResult, main_possible_tags(tgName, CleanVersion(tgVersion)),
                             tgTags, tgVersion)
        /\ (tgTags = {"foo-v1.2.3", "v1.2.3"} /\ tgName = "foo"
                /\ VersionToString(tgVersion) = "1.2.3")
            => tgMainResult = Some("foo-v1.2.3")

\* C14: two versions that differ only in build metadata have the same candidate
\* list, and for every tag set and name the same match or none.
C14_BuildMetadataIgnored ==
    tgPc = "other" =>
        LET other == Unwrap(tgOther) IN
        /\ other.version.build # tgVersion.build
        /\ other.candidates = possible_tags(tgName, CleanVersion(tgVersion))
        /\ other.main_candidates = main_possible_tags(tgName, CleanVersion(tgVersion))
        /\ other.after = "found" => other.result = tgResult
        /\ other.after = "main_found" => other.main_result = tgMainResult

\* 1.2.3 and 1.2.3+buildXYZ both match v1.2.3 though v1.2.3+buildXYZ is a tag.
C14_Witness ==
    /\ tgPc = "other"
    /\ VersionToString(tgVersion) = "1.2.3"
    /\ Unwrap(tgOther).version.build = "buildXYZ"
    /\ tgTags = {"v1.2.3", "v1.2.3+buildXYZ"}
    /\ Unwrap(tgOther).result = Some("v1.2.3")
    /\ tgResult = Some("v1.2.3")

\* C5's case: the tag set of the example, matched for foo 1.2.3.
C5_Witness ==
    /\ tgPc = "found"
    /\ tgTags = {"foo-v1.2.3", "v1.2.3"}
    /\ tgName = "foo"
    /\ VersionToString(tgVersion) = "1.2.3"
    /\ tgResult = Some("foo-v1.2.3")

(***************************************************************************)
(* registry.rs: RegistryCrate::obtain (main.rs: download the package), run  *)
(* by several workers, or several runs, for the same name and version       *)
(***************************************************************************)

\* Bounds: the concurrent callers, and the chunks io::copy writes.
NumWorkers == 2
ArchiveChunks == 2

Workers == 1..NumWorkers
\* The downloaded archive: chunk k holds k.
FullArchive == [k \in 1..ArchiveChunks |-> k]
NoFd == [ino |-> 0, off |-> 0]

\* write(2) at the descriptor's offset: the bytes between the end of the file
\* and the offset read as zeroes.
WriteAt(data, off, val) ==
    [k \in 1..(IF Len(data) > off + 1 THEN Len(data) ELSE off + 1) |->
        IF k = off + 1 THEN val ELSE IF k <= Len(data) THEN data[k] ELSE 0]

ObIdle ==
    /\ obDir = FALSE
    /\ obFinal = 0
    /\ obTmp = 0
    /\ obData = <<>>
    /\ obPc = <<>>
    /\ obFd = <<>>

\* An empty cache directory; every worker is about to call obtain.
ObInit ==
    /\ obDir \in BOOLEAN
    /\ obFinal = 0
    /\ obTmp = 0
    /\ obData = <<>>
    /\ obPc = [w \in Workers |-> "dir"]
    /\ obFd = [w \in Workers |-> NoFd]

\* if !crate_dir.try_exists()?
ObtainCheckDir(w) ==
    /\ obPc[w] = "dir"
    /\ obPc' = [obPc EXCEPT ![w] = IF obDir THEN "check" ELSE "mkdir"]
    /\ UNCHANGED <<obDir, obFinal, obTmp, obData, obFd>>

\* fs::create_dir(&crate_dir)?: an error when the directory exists by now.
ObtainCreateDir(w) ==
    /\ obPc[w] = "mkdir"
    /\ IF obDir
       THEN obPc' = [obPc EXCEPT ![w] = "failed"] /\ UNCHANGED obDir
       ELSE obPc' = [obPc EXCEPT ![w] = "check"] /\ obDir' = TRUE
    /\ UNCHANGED <<obFinal, obTmp, obData, obFd>>

\* if !crate_path.try_exists()?
ObtainCheckFile(w) ==
    /\ obPc[w] = "check"
    /\ obPc' = [obPc EXCEPT ![w] = IF obFinal # 0 THEN "done" ELSE "send"]
    /\ UNCHANGED <<obDir, obFinal, obTmp, obData, obFd>>

\* http_client.get(..).send()?.error_for_status()?
ObtainSend(w) ==
    /\ obPc[w] = "send"
    /\ \E ok \in BOOLEAN : obPc' = [obPc EXCEPT ![w] = IF ok THEN "create" ELSE "failed"]
    /\ UNCHANGED <<obDir, obFinal, obTmp, obData, obFd>>

\* File::create(&tmp_crate_path)?: a new file, or the existing one truncated.
ObtainCreateTmp(w) ==
    /\ obPc[w] = "create"
    /\ IF obTmp = 0
       THEN /\ obData' = Append(obData, <<>>)
            /\ obTmp' = Len(obData) + 1
            /\ obFd' = [obFd EXCEPT ![w] = [ino |-> Len(obData) + 1, off |-> 0]]
       ELSE /\ obData' = [obData EXCEPT ![obTmp] = <<>>]
            /\ obFd' = [obFd EXCEPT ![w] = [ino |-> obTmp, off |-> 0]]
            /\ UNCHANGED obTmp
    /\ obPc' = [obPc EXCEPT ![w] = "copy"]
    /\ UNCHANGED <<obDir, obFinal>>

\* io::copy(&mut resp, &mut tmp_crate_file)?: one chunk written, or the body
\* fails; after the last chunk flush and drop close the file.
ObtainCopy(w) ==
    /\ obPc[w] = "copy"
    /\ \/ /\ obFd[w].off < ArchiveChunks
          /\ obData' = [obData EXCEPT ![obFd[w].ino] =
                            WriteAt(@, obFd[w].off, FullArchive[obFd[w].off + 1])]
          /\ obFd' = [obFd EXCEPT ![w].off = @ + 1]
          /\ UNCHANGED obPc
       \/ /\ obFd[w].off < ArchiveChunks
          /\ obFd' = [obFd EXCEPT ![w] = NoFd]
          /\ obPc' = [obPc EXCEPT ![w] = "failed"]
          /\ UNCHANGED obData
       \/ /\ obFd[w].off = ArchiveChunks
          /\ obFd' = [obFd EXCEPT ![w] = NoFd]
          /\ obPc' = [obPc EXCEPT ![w] = "rename"]
          /\ UNCHANGED obData
    /\ UNCHANGED <<obDir, obFinal, obTmp>>

\* fs::rename(tmp_crate_path, &crate_path)?: an error when the temporary path
\* is gone; otherwise the final path names the temporary path's file.
ObtainRename(w) ==
    /\ obPc[w] = "rename"
    /\ IF obTmp = 0
       THEN obPc' = [obPc EXCEPT ![w] = "failed"] /\ UNCHANGED <<obFinal, obTmp>>
       ELSE obPc' = [obPc EXCEPT ![w] = "done"] /\ obFinal' = obTmp /\ obTmp' = 0
    /\ UNCHANGED <<obDir, obData, obFd>>

\* C4: whenever the final cache path exists it holds the complete downloaded
\* archive, however many workers obtain the same name and version at once.
C4_FinalPathHoldsCompleteArchive ==
    obFinal # 0 => obData[obFinal] = FullArchive

(***************************************************************************)
(* main.rs: values of the run                                               *)
(***************************************************************************)

\* Bound: the packages of the lock file.
MaxPackages == 2

\* Result<T>.
Ok(x) == [ok |-> TRUE, val |-> x]
Err(e) == [ok |-> FALSE, err |-> e]

Names == {"foo", "bar"}
\* Every package of the run has version 1.0.0.
RunVersion == [core |-> "1.0.0", pre |-> "", build |-> ""]

\* cargo_lock::Package: name, source (None, or its kind and url), checksum.
PackageRecords ==
    [name : Names,
     source : {"none", "git", "other_registry", "crates_io"},
     checksum : {None, Some("h1")}]

\* str::ends_with on the strings of the model.
StrEndsWith(str, suffix) ==
    CASE suffix = ".cargo_vcs_info.json" -> str = ".cargo_vcs_info.json"
      [] suffix = "Cargo.toml" -> str = "Cargo.toml"
      [] OTHER -> str = suffix

\* String::ends_with on the entry's path: no suffix of the model holds a `/`, so
\* the last component decides.
PathStrEndsWith(path, suffix) == path # <<>> /\ StrEndsWith(path[Len(path)], suffix)

\* url::Url: scheme, host, and the path as its segments, a segment as the pieces
\* it is written with (`repo.git` is <<"repo", ".git">>).
UrlOf(scheme, host, path) == [scheme |-> scheme, host |-> host, path |-> path]

\* str::parse::<Url> on the repository strings of the model.
ParseUrl(str) ==
    CASE str = "https://github.com/owner/repo" ->
            Ok(UrlOf("https", Some("github.com"), << <<"owner">>, <<"repo">> >>))
      [] str = "https://github.com/owner/repo.git" ->
            Ok(UrlOf("https", Some("github.com"), << <<"owner">>, <<"repo", ".git">> >>))
      [] str = "https://example.org/owner/repo" ->
            Ok(UrlOf("https", Some("example.org"), << <<"owner">>, <<"repo">> >>))
      [] str = "https://example.org/owner-repo" ->
            Ok(UrlOf("https", Some("example.org"), << <<"owner-repo">> >>))
      [] str = "ssh://github.com/owner/repo" ->
            Ok(UrlOf("ssh", Some("github.com"), << <<"owner">>, <<"repo">> >>))
      [] str = "https://github.com/owner" ->
            Ok(UrlOf("https", Some("github.com"), << <<"owner">> >>))
      [] OTHER -> Err("repository isn't a valid url")

\* host.starts_with("gitlab.") on the hosts of the model.
StartsWithGitlab(host) == host \in {"gitlab.com", "gitlab.example.org"}

\* A segment taken as it is.
TrimEndNothing(segment) == segment

\* str::trim_end_matches(".git"): every trailing `.git` is removed.
RECURSIVE TrimEndGit(_)
TrimEndGit(segment) ==
    IF segment # <<>> /\ segment[Len(segment)] = ".git"
    THEN TrimEndGit(SubSeq(segment, 1, Len(segment) - 1))
    ELSE segment

\* main.rs 215-236: the normalized URL.
\* split('/') always yields a first item, so only the repository name can miss.
NormalizeUrl(url) ==
    IF url.scheme \notin {"http", "https"}
    THEN Err("Bad repository scheme")
    ELSE IF ~IsSome(url.host)
    THEN Err("repository doesnt have a host")
    ELSE IF Unwrap(url.host) = "github.com" \/ StartsWithGitlab(Unwrap(url.host))
    THEN IF Len(url.path) < 2
         THEN Err("repository is missing repo name")
         ELSE Ok([url EXCEPT !.path = <<url.path[1], TrimEndGit(url.path[2]) \o <<".git">> >>])
    ELSE Ok(url)

RECURSIVE Concat(_)
Concat(pieces) == IF pieces = <<>> THEN "" ELSE Head(pieces) \o Concat(Tail(pieces))

\* url.path().replace('/', '-'): every segment with `-` before it.
RECURSIVE DashedPath(_)
DashedPath(path) ==
    IF path = <<>> THEN "" ELSE "-" \o Concat(Head(path)) \o DashedPath(Tail(path))

\* main.rs 238-243: the name of the clone's directory under repositories/.
RepoDirName(url) == Unwrap(url.host) \o "-" \o DashedPath(url.path)

\* cargo_toml::Manifest as main reads it: package, and its repository.
ManifestOf(repository) ==
    [valid |-> TRUE, package |-> Some([repository |-> repository])]
ManifestNoPackage == [valid |-> TRUE, package |-> None]
ManifestInvalid == [valid |-> FALSE, package |-> None]
\* Inheritable<String>: a value, or `repository.workspace = true`.
Repo(str) == Some([inherited |-> FALSE, value |-> str])
RepoInherited == Some([inherited |-> TRUE, value |-> ""])

\* An archive entry: its path, what serde_json makes of its bytes as CargoVcsInfo
\* (.ok(): the sha1 or None), what Manifest::from_str makes of them, and the
\* digest of its bytes without whitespace.
VcsEntry(sha1) ==
    [path |-> <<"foo-1.0.0", ".cargo_vcs_info.json">>, vcs |-> sha1,
     manifest |-> ManifestInvalid, digest |-> "d1"]
TomlEntry(path, manifest) ==
    [path |-> path, vcs |-> None, manifest |-> manifest, digest |-> "d1"]
FileEntry(path, digest) ==
    [path |-> path, vcs |-> None, manifest |-> ManifestInvalid, digest |-> digest]

TomlPath == <<"foo-1.0.0", "Cargo.toml">>
OrigPath == <<"foo-1.0.0", "Cargo.toml.orig">>
LibPath == <<"foo-1.0.0", "src", "lib.rs">>

\* The archives crates.io serves, or the cache holds: sha (of the raw bytes) and
\* entries.
Archive(sha, entries) == [sha |-> sha, entries |-> entries]
GoodToml == TomlEntry(TomlPath, ManifestOf(Repo("https://github.com/owner/repo")))
Archives ==
    { \* the hint is c1, the repository a github URL
      Archive("h1", <<VcsEntry(Some("c1")), GoodToml, FileEntry(OrigPath, "d1"),
                      FileEntry(LibPath, "d1")>>),
      \* the hint is c2
      Archive("h1", <<VcsEntry(Some("c2")), GoodToml, FileEntry(OrigPath, "d1"),
                      FileEntry(LibPath, "d1")>>),
      \* no hint, the same repository written with .git
      Archive("h1", <<TomlEntry(TomlPath, ManifestOf(Repo("https://github.com/owner/repo.git"))),
                      FileEntry(OrigPath, "d1"), FileEntry(LibPath, "d1")>>),
      \* a hint that does not parse, a repository on another host
      Archive("h1", <<VcsEntry(None),
                      TomlEntry(TomlPath, ManifestOf(Repo("https://example.org/owner/repo"))),
                      FileEntry(LibPath, "d1")>>),
      \* a repository of one path segment on that host
      Archive("h1", <<TomlEntry(TomlPath, ManifestOf(Repo("https://example.org/owner-repo"))),
                      FileEntry(LibPath, "d1")>>),
      \* other raw bytes than the lock file's checksum is of
      Archive("h2", <<VcsEntry(Some("c1")), GoodToml, FileEntry(LibPath, "d2")>>),
      \* two hint files
      Archive("h1", <<VcsEntry(Some("c1")), VcsEntry(Some("c2")), GoodToml>>),
      \* two hint files, the first does not parse
      Archive("h1", <<VcsEntry(None), VcsEntry(Some("c1")), GoodToml>>),
      \* two manifests: the crate's, then a nested one
      Archive("h1", <<GoodToml,
                      TomlEntry(<<"foo-1.0.0", "sub", "Cargo.toml">>,
                                ManifestOf(Repo("https://example.org/owner/repo")))>>),
      \* no manifest
      Archive("h1", <<VcsEntry(Some("c1")), FileEntry(LibPath, "d1")>>),
      \* a manifest that does not parse
      Archive("h1", <<TomlEntry(TomlPath, ManifestInvalid)>>),
      \* a manifest without [package]
      Archive("h1", <<TomlEntry(TomlPath, ManifestNoPackage)>>),
      \* no repository
      Archive("h1", <<TomlEntry(TomlPath, ManifestOf(None))>>),
      \* repository.workspace = true
      Archive("h1", <<TomlEntry(TomlPath, ManifestOf(RepoInherited))>>),
      \* repositories that are rejected
      Archive("h1", <<TomlEntry(TomlPath, ManifestOf(Repo("ssh://github.com/owner/repo")))>>),
      Archive("h1", <<TomlEntry(TomlPath, ManifestOf(Repo("https://github.com/owner")))>>),
      Archive("h1", <<TomlEntry(TomlPath, ManifestOf(Repo("owner/repo")))>> ) }

\* main.rs 162-192: the loop over the entries; st is [vcs, toml, lines, err].
RECURSIVE InspectEntries(_, _)
InspectEntries(entries, st) ==
    IF entries = <<>> \/ IsSome(st.err)
    THEN st
    ELSE LET entry == Head(entries) IN
         IF PathStrEndsWith(entry.path, ".cargo_vcs_info.json")
         THEN IF IsSome(st.vcs)
              THEN [st EXCEPT !.err = Some(".cargo_vcs_info.json encountered multiple times")]
              ELSE InspectEntries(Tail(entries), [st EXCEPT !.vcs = entry.vcs])
         ELSE IF PathStrEndsWith(entry.path, "Cargo.toml")
         THEN LET st1 == IF IsSome(st.toml)
                         THEN [st EXCEPT !.lines = Append(@, [kind |-> "Cargo.toml encountered multiple times",
                                                          path |-> <<>>])]
                         ELSE st
              IN IF ~entry.manifest.valid
                 THEN [st1 EXCEPT !.err = Some("Manifest::from_str")]
                 ELSE InspectEntries(Tail(entries), [st1 EXCEPT !.toml = Some(entry.manifest)])
         ELSE InspectEntries(Tail(entries), st)

InspectArchive(archive) ==
    InspectEntries(archive.entries, [vcs |-> None, toml |-> None, lines |-> <<>>, err |-> None])

\* main.rs 451-469: the archive's entries as path -> digest.
ArchiveMap(archive) ==
    [p \in {archive.entries[k].path : k \in 1..Len(archive.entries)} |->
        (CHOOSE e \in {archive.entries[k] : k \in 1..Len(archive.entries)} : e.path = p).digest]

\* What `cargo package` puts in the .crate for the working copy at `commit`: at
\* c1 the sources the good archives hold, at c2 other sources and one more file.
BuiltArchive(commit) ==
    IF commit = "c1"
    THEN Archive("b1", <<VcsEntry(Some("c1")), GoodToml,
                         FileEntry(OrigPath, "d1"),
                         FileEntry(LibPath, "d1")>>)
    ELSE Archive("b2", <<VcsEntry(Some("c2")), GoodToml,
                         FileEntry(OrigPath, "d2"),
                         FileEntry(<<"foo-1.0.0", "extra.txt">>, "d1"),
                         FileEntry(LibPath, "d2")>>)

\* The tag names `git tag` lists in a clone.
TagSets == {{}, {"v1.0.0"}, {"release"}}

(***************************************************************************)
(* git.rs: TryFrom<Url> for GitUrl, and main.rs 215-236                     *)
(***************************************************************************)

\* Bound: the segments of a path.
MaxSegments == 3

\* The segments of the paths, as the pieces they are written with; <<>> is the
\* empty segment, the one after a trailing slash.
Segments ==
    { <<>>, <<"owner">>, <<"repo">>, <<"repo", ".git">>, <<"repo", ".git", ".git">>,
      <<"tree">> }

RECURSIVE PathsOfLen(_)
PathsOfLen(n) ==
    IF n = 0 THEN {<<>>}
    ELSE {Append(path, segment) : path \in PathsOfLen(n - 1), segment \in Segments}

\* url.path() always starts with `/`: a path has at least one segment.
UrlPaths == UNION {PathsOfLen(n) : n \in 1..MaxSegments}

\* The Urls a repository string parses to: one of http and https has a host.
UrlInputs ==
    {UrlOf(scheme, Some(host), path) :
        scheme \in {"http", "https", "ssh"},
        host \in {"github.com", "gitlab.example.org", "example.org"},
        path \in UrlPaths}
    \cup {UrlOf("file", None, path) : path \in UrlPaths}

\* A try_from that accepts every scheme.
GitUrlTryFromAnyScheme(url) ==
    IF ~IsSome(url.host)
    THEN Err("repository doesn't have a host")
    ELSE IF Unwrap(url.host) = "github.com" \/ StartsWithGitlab(Unwrap(url.host))
    THEN IF Len(url.path) < 2
         THEN Err("repository is missing repo name")
         ELSE Ok([url EXCEPT !.path = <<url.path[1], TrimEndGit(url.path[2]) \o <<".git">> >>])
    ELSE Ok(url)

\* git.rs 229-259: GitUrl::try_from. path.next() of the split has a first item
\* for every path; the second is missing for a path of one segment.
GitUrlTryFrom(url) ==
    IF url.scheme \notin {"http", "https"}
    THEN Err("Bad repository scheme")
    ELSE IF ~IsSome(url.host)
    THEN Err("repository doesn't have a host")
    ELSE IF Unwrap(url.host) = "github.com" \/ StartsWithGitlab(Unwrap(url.host))
    THEN IF Len(url.path) < 2
         THEN Err("repository is missing repo name")
         ELSE Ok([url EXCEPT !.path = <<url.path[1], TrimEndGit(url.path[2]) \o <<".git">> >>])
    ELSE Ok(url)

\* Display for Url: the bytes of the key.
RECURSIVE PathToString(_)
PathToString(path) ==
    IF path = <<>> THEN "" ELSE "/" \o Concat(Head(path)) \o PathToString(Tail(path))
UrlToString(url) ==
    url.scheme \o "://" \o (IF IsSome(url.host) THEN Unwrap(url.host) ELSE "")
               \o PathToString(url.path)

\* The segment of a repository name, written without and with a trailing .git.
WithoutDotGit(segment) ==
    IF segment # <<>> /\ segment[Len(segment)] = ".git"
    THEN SubSeq(segment, 1, Len(segment) - 1)
    ELSE segment
WithDotGit(segment) == WithoutDotGit(segment) \o <<".git">>

\* The Urls of the same scheme, host, owner and repository name as url: the name
\* with or without a trailing .git, then a trailing slash or more segments.
Variants(url) ==
    {[url EXCEPT !.path = <<url.path[1], name>> \o rest] :
        name \in {WithoutDotGit(url.path[2]), WithDotGit(url.path[2])},
        rest \in {r \in {<<>>} \cup UrlPaths : Len(r) + 2 <= MaxSegments}}

UIdle ==
    /\ uRaw = None /\ uResult = None /\ uAgain = None /\ uMain = None
    /\ uVariant = None /\ uPc = "idle"

UInit ==
    /\ uRaw \in UrlInputs
    /\ uResult = None /\ uAgain = None /\ uMain = None /\ uVariant = None
    /\ uPc = "start"

\* GitUrl::try_from(url).
TryFrom ==
    /\ uPc \in {"start", "main"}
    /\ uResult' = Some(GitUrlTryFrom(uRaw))
    /\ uPc' = "normalized"
    /\ UNCHANGED <<uRaw, uAgain, uMain, uVariant>>

\* GitUrl::try_from on the Url of a GitUrl.
TryFromAgain ==
    /\ uPc = "normalized"
    /\ Unwrap(uResult).ok
    /\ uAgain' = Some(GitUrlTryFrom(Unwrap(uResult).val))
    /\ uPc' = "again"
    /\ UNCHANGED <<uRaw, uResult, uMain, uVariant>>

\* GitUrl::try_from on another way to write the repository of uRaw.
TryFromVariant ==
    /\ uPc = "normalized"
    /\ Len(uRaw.path) >= 2
    /\ \E url \in Variants(uRaw) :
          uVariant' = Some([url |-> url, result |-> GitUrlTryFrom(url),
                            main |-> NormalizeUrl(url)])
    /\ uPc' = "variant"
    /\ UNCHANGED <<uRaw, uResult, uAgain, uMain>>

\* main.rs 215-236 on the parsed repository, and again on its result.
MainNormalize ==
    /\ uPc = "start"
    /\ LET first == NormalizeUrl(uRaw) IN
       uMain' = Some([first |-> first,
                      again |-> IF first.ok THEN NormalizeUrl(first.val) ELSE first])
    /\ uPc' = "main"
    /\ UNCHANGED <<uRaw, uResult, uAgain, uVariant>>

(***************************************************************************)
(* Properties of the URL normalization                                      *)
(***************************************************************************)

IsForge(url) ==
    IsSome(url.host) /\ (Unwrap(url.host) = "github.com" \/ StartsWithGitlab(Unwrap(url.host)))

\* C11: normalization is idempotent: the normalization of a normalized URL
\* succeeds and gives the same key, byte for byte.
C11_NormalizeIdempotent ==
    /\ uPc = "again" =>
          /\ Unwrap(uAgain).ok
          /\ Unwrap(uAgain).val = Unwrap(uResult).val
          /\ UrlToString(Unwrap(uAgain).val) = UrlToString(Unwrap(uResult).val)
    /\ (IsSome(uMain) /\ Unwrap(uMain).first.ok) =>
          /\ Unwrap(uMain).again.ok
          /\ UrlToString(Unwrap(uMain).again.val) = UrlToString(Unwrap(uMain).first.val)

\* A github URL with a .git name and one more segment, normalized twice.
C11_Witness ==
    /\ uPc = "again"
    /\ uRaw.host = Some("github.com")
    /\ uRaw.path = << <<"owner">>, <<"repo", ".git">>, <<"tree">> >>
    /\ UrlToString(Unwrap(uAgain).val) = "https://github.com/owner/repo.git"

\* C12: on a forge host the URLs of one owner and repository name, with or
\* without a trailing .git, a trailing slash or more segments, normalize to the
\* same path /{owner}/{repo}.git.
C12_ForgeVariantsSamePath ==
    (uPc = "variant" /\ IsForge(uRaw) /\ Unwrap(uResult).ok) =>
        LET result == Unwrap(uResult).val
            other == Unwrap(uVariant) IN
        /\ other.result.ok
        /\ other.result.val.path = result.path
        /\ PathToString(other.result.val.path) = PathToString(result.path)
        /\ result.path = <<uRaw.path[1], WithDotGit(result.path[2])>>
        /\ IsSome(uMain) =>
              /\ other.main.ok
              /\ other.main.val.path = Unwrap(uMain).first.val.path
              /\ Unwrap(uMain).first.val.path = result.path

\* /owner/repo and /owner/repo.git/tree normalize to /owner/repo.git.
C12_Witness ==
    /\ uPc = "variant"
    /\ uRaw.scheme = "https" /\ uRaw.host = Some("gitlab.example.org")
    /\ uRaw.path = << <<"owner">>, <<"repo">> >>
    /\ Unwrap(uVariant).url.path = << <<"owner">>, <<"repo", ".git">>, <<"tree">> >>
    /\ PathToString(Unwrap(uVariant).result.val.path) = "/owner/repo.git"
    /\ IsSome(uMain)

\* What C13 says of one result of the normalization of url.
RejectsOrTwoSegments(url, result) ==
    /\ (url.scheme \notin {"http", "https"} \/ ~IsSome(url.host)) => ~result.ok
    /\ (IsForge(url) /\ Len(url.path) < 2) => ~result.ok
    /\ ~result.ok => "val" \notin DOMAIN result
    /\ (result.ok /\ IsForge(url)) => Len(result.val.path) = 2

CurOf(package) ==
    [package |-> package, archive |-> None, cargo_vcs_info |-> None,
     repository |-> None, url |-> None, repo_dir |-> None, tags |-> None,
     tag |-> None, commit |-> None, inspected |-> FALSE, compared |-> FALSE,
     lines |-> <<>>, cmds |-> <<>>]
NoCur == CurOf(None)

MIdle ==
    /\ mPc = "idle" /\ mExit = "running" /\ mErr = "" /\ mLockLen = 0 /\ mIdx = 0
    /\ mCur = NoCur /\ mCrates = <<>> /\ mRepos = <<>> /\ mBuilt = <<>>
    /\ mBusy = {} /\ mOrder = <<>> /\ mTagRuns = <<>>

\* The process starts in a directory whose lock file, if it is one, lists
\* mLockLen packages, with an empty cache directory.
MInit ==
    /\ mPc = "setup" /\ mExit = "running" /\ mErr = ""
    /\ mLockLen \in 1..MaxPackages
    /\ mIdx = 0
    /\ mCur = NoCur /\ mCrates = <<>> /\ mRepos = <<>> /\ mBuilt = <<>>
    /\ mBusy = {} /\ mOrder = <<>> /\ mTagRuns = <<>>

\* An iteration from the last package of the lock file to the first.
NextIndexReversed(i) == IF i = 0 THEN MaxPackages ELSE i - 1

\* for package in lock.packages: the position after position i.
NextIndex(i) == i + 1

\* A line of standard output: its text, and the path it is about.
Line(text) == [kind |-> text, path |-> <<>>]
\* println!
Println(cur, text) == [cur EXCEPT !.lines = Append(@, Line(text))]
\* Command::new(..).output(): the child has exited when it returns.
Ran(cur, cmd) == [cur EXCEPT !.cmds = Append(@, cmd)]

\* `?`, ensure!, context()?: main returns the error.
Abort(reason) ==
    /\ mPc' = "exit" /\ mExit' = "error" /\ mErr' = reason
    /\ mBusy' = {b \in mBusy : b[2] # mIdx}

\* continue, or the end of the loop body: every command of the package has
\* been waited for.
Continue ==
    /\ mPc' = "loop" /\ mBusy' = {b \in mBusy : b[2] # mIdx}
    /\ UNCHANGED <<mExit, mErr>>

Goto(pc) ==
    /\ mPc' = pc
    /\ UNCHANGED <<mExit, mErr, mBusy>>

\* main.rs 41-73: the client, the toolchain, the directories, the lock file.
Setup ==
    /\ mPc = "setup"
    /\ \E outcome \in {"ok", "create_dir_all", "Cargo.lock not found", "decode Cargo.lock"} :
          IF outcome = "ok" THEN Goto("loop") ELSE Abort(outcome)
    /\ UNCHANGED <<mLockLen, mIdx, mCur, mCrates, mRepos, mBuilt, mOrder, mTagRuns>>
    /\ UNCHANGED <<rdVars, cmpVars, tgVars, obVars, uVars>>

\* main.rs 75: the next package of the lock file.
LoopNext ==
    /\ mPc = "loop"
    /\ NextIndex(mIdx) \in 1..mLockLen
    /\ mIdx' = NextIndex(mIdx)
    /\ \E package \in PackageRecords : mCur' = CurOf(Some(package))
    /\ Goto("source")
    /\ UNCHANGED <<mLockLen, mCrates, mRepos, mBuilt, mOrder, mTagRuns>>
    /\ UNCHANGED <<rdVars, cmpVars, tgVars, obVars, uVars>>

\* main.rs 526: Ok(()).
LoopEnd ==
    /\ mPc = "loop"
    /\ NextIndex(mIdx) \notin 1..mLockLen
    /\ mPc' = "exit" /\ mExit' = "ok"
    /\ UNCHANGED <<mErr, mLockLen, mIdx, mCur, mCrates, mRepos, mBuilt, mBusy, mOrder, mTagRuns>>
    /\ UNCHANGED <<rdVars, cmpVars, tgVars, obVars, uVars>>

\* main.rs 80-94: only packages of the crates.io registry go on.
CheckSource ==
    /\ mPc = "source"
    /\ LET package == Unwrap(mCur.package) IN
       CASE package.source = "none" ->
               /\ mCur' = Println(mCur, "doesn't have a source")
               /\ Continue
         [] package.source = "git" ->
               /\ mCur' = mCur
               /\ Continue
         [] package.source = "other_registry" ->
               /\ mCur' = Println(mCur, "isn't part of the official crates.io registry")
               /\ Continue
         [] OTHER ->
               /\ mCur' = mCur
               /\ Goto("download")
    /\ UNCHANGED <<mLockLen, mIdx, mCrates, mRepos, mBuilt, mOrder, mTagRuns>>
    /\ UNCHANGED <<rdVars, cmpVars, tgVars, obVars, uVars>>

\* A cache test that never finds the file.
CrateNeverCached(crates, name) == FALSE

\* main.rs 104-105: crate_path.try_exists().
CrateCached(crates, name) == name \in DOMAIN crates

\* main.rs 100-133: the archive is in the cache, or it is downloaded to the
\* temporary path and renamed.
Download ==
    /\ mPc = "download"
    /\ LET name == Unwrap(mCur.package).name IN
       IF CrateCached(mCrates, name)
       THEN /\ mCur' = [mCur EXCEPT !.archive = Some(mCrates[name])]
            /\ mCrates' = mCrates
            /\ Goto("checksum")
       ELSE LET cur == Ran(Println(mCur, "Downloading"), "GET") IN
            \/ /\ mCur' = cur
               /\ mCrates' = mCrates
               /\ Abort("send")
            \/ /\ mCur' = Println(cur, "Couldn't download")
               /\ mCrates' = mCrates
               /\ Continue
            \/ /\ mCur' = cur
               /\ mCrates' = mCrates
               /\ Abort("io::copy")
            \/ \E archive \in Archives :
                  /\ mCur' = [cur EXCEPT !.archive = Some(archive)]
                  /\ mCrates' = (name :> archive) @@ mCrates
                  /\ Goto("checksum")
    /\ UNCHANGED <<mLockLen, mIdx, mRepos, mBuilt, mOrder, mTagRuns>>
    /\ UNCHANGED <<rdVars, cmpVars, tgVars, obVars, uVars>>

\* main.rs 139-156: the SHA-256 of the cached file against the lock file's.
VerifyChecksum ==
    /\ mPc = "checksum"
    /\ LET package == Unwrap(mCur.package)
           archive == Unwrap(mCur.archive) IN
       IF IsSome(package.checksum)
       THEN IF archive.sha = Unwrap(package.checksum)
            THEN /\ mCur' = mCur
                 /\ Goto("read")
            ELSE /\ mCur' = mCur
                 /\ Abort("digest doesn't match")
       ELSE /\ mCur' = Println(mCur, "doesn't have a checksum")
            /\ Goto("read")
    /\ UNCHANGED <<mLockLen, mIdx, mCrates, mRepos, mBuilt, mOrder, mTagRuns>>
    /\ UNCHANGED <<rdVars, cmpVars, tgVars, obVars, uVars>>

\* main.rs 162-205: the hint and the manifest of the archive.
ReadArchive ==
    /\ mPc = "read"
    /\ LET st == InspectArchive(Unwrap(mCur.archive))
           cur == [mCur EXCEPT !.lines = @ \o st.lines, !.cargo_vcs_info = st.vcs,
                               !.inspected = TRUE] IN
       IF IsSome(st.err)
       THEN /\ mCur' = [mCur EXCEPT !.lines = @ \o st.lines, !.inspected = TRUE]
            /\ Abort(Unwrap(st.err))
       ELSE IF ~IsSome(st.toml)
       THEN /\ mCur' = cur
            /\ Abort("Cargo.toml not found")
       ELSE IF ~IsSome(Unwrap(st.toml).package)
       THEN /\ mCur' = cur
            /\ Abort("Package metadata missing")
       ELSE LET repository == Unwrap(Unwrap(st.toml).package).repository IN
            IF ~IsSome(repository)
            THEN /\ mCur' = Println(cur, "is missing repository attribute")
                 /\ Continue
            ELSE /\ mCur' = [cur EXCEPT !.repository = repository]
                 /\ Goto("url")
    /\ UNCHANGED <<mLockLen, mIdx, mCrates, mRepos, mBuilt, mOrder, mTagRuns>>
    /\ UNCHANGED <<rdVars, cmpVars, tgVars, obVars, uVars>>

\* main.rs 211-243: the repository URL, normalized, and the clone's directory.
ParseRepository ==
    /\ mPc = "url"
    /\ LET repository == Unwrap(mCur.repository)
           parsed == ParseUrl(repository.value)
           url == IF parsed.ok THEN NormalizeUrl(parsed.val) ELSE parsed IN
       IF repository.inherited
       THEN /\ mCur' = mCur
            /\ Abort("repository.get")
       ELSE IF ~url.ok
       THEN /\ mCur' = mCur
            /\ Abort(url.err)
       ELSE /\ mCur' = [mCur EXCEPT !.url = Some(url.val),
                                    !.repo_dir = Some(RepoDirName(url.val))]
            /\ Goto("clone")
    /\ UNCHANGED <<mLockLen, mIdx, mCrates, mRepos, mBuilt, mOrder, mTagRuns>>
    /\ UNCHANGED <<rdVars, cmpVars, tgVars, obVars, uVars>>

\* main.rs 244-258: git clone, unless the directory exists.
Clone ==
    /\ mPc = "clone"
    /\ LET repo_dir == Unwrap(mCur.repo_dir) IN
       IF repo_dir \in DOMAIN mRepos
       THEN /\ mCur' = mCur
            /\ mRepos' = mRepos
            /\ Goto("tags")
       ELSE LET cur == Ran(Println(mCur, "Cloning"), "git clone") IN
            \/ /\ mCur' = Println(cur, "Couldn't clone")
               /\ mRepos' = mRepos
               /\ Continue
            \/ \E tags \in TagSets :
                  /\ mCur' = cur
                  /\ mRepos' = (repo_dir :> [url |-> UrlToString(Unwrap(mCur.url)),
                                              tags |-> tags]) @@ mRepos
                  /\ Goto("tags")
    /\ UNCHANGED <<mLockLen, mIdx, mCrates, mBuilt, mOrder, mTagRuns>>
    /\ UNCHANGED <<rdVars, cmpVars, tgVars, obVars, uVars>>

\* main.rs 264-278: git tag.
GetTags ==
    /\ mPc = "tags"
    /\ mTagRuns' = Append(mTagRuns, UrlToString(Unwrap(mCur.url)))
    /\ LET cur == Ran(mCur, "git tag") IN
       \/ /\ mCur' = cur
          /\ Abort("Couldn't list git tags")
       \/ /\ mCur' = [cur EXCEPT !.tags = Some(mRepos[Unwrap(mCur.repo_dir)].tags)]
          /\ Goto("match")
    /\ UNCHANGED <<mLockLen, mIdx, mCrates, mRepos, mBuilt, mOrder>>
    /\ UNCHANGED <<rdVars, cmpVars, tgVars, obVars, uVars>>

\* git rev-list -n 1 {tag}: the commit behind a tag of the clones.
TagCommit(tag) == "c1"

\* A step whose failure is printed and not acted on.
SubmoduleIgnoringFailure(step, next) ==
    /\ mPc = "submodule " \o step
    /\ LET cur == Ran(mCur, "git submodule " \o step) IN
       \/ /\ mCur' = Println(cur, "Couldn't " \o step \o " submodules")
          /\ Goto(next)
       \/ /\ mCur' = cur
          /\ Goto(next)
    /\ UNCHANGED <<mLockLen, mIdx, mCrates, mRepos, mBuilt, mOrder, mTagRuns>>
    /\ UNCHANGED <<rdVars, cmpVars, tgVars, obVars, uVars>>

\* A resolution that takes the hint's commit when there is one.
ResolvedFromTagPrefersHint(tag_commit, cargo_vcs_info) ==
    IF IsSome(cargo_vcs_info) THEN Unwrap(cargo_vcs_info) ELSE tag_commit

\* main.rs 299-335: the value of the match arm of a matching tag is the commit
\* behind the tag; the hint is only compared with it.
ResolvedFromTag(tag_commit, cargo_vcs_info) == tag_commit

\* A fallback that never takes the hint.
NoTagOutcomeNoFallback(cargo_vcs_info) == None

\* main.rs 336-346: the commit when no candidate is a tag: the hint's, or none.
NoTagOutcome(cargo_vcs_info) ==
    IF IsSome(cargo_vcs_info) THEN Some(Unwrap(cargo_vcs_info)) ELSE None

\* main.rs 284-347: the first candidate that is a tag, and the commit.
MatchTag ==
    /\ mPc = "match"
    /\ LET package == Unwrap(mCur.package)
           tag == main_find_tag(Unwrap(mCur.tags), package.name, RunVersion)
           cur == [mCur EXCEPT !.tag = tag] IN
       IF IsSome(tag)
       THEN LET ran == Ran(cur, "git rev-list")
                commit == TagCommit(Unwrap(tag)) IN
            \/ /\ mCur' = ran
               /\ Abort("Couldn't determine commit behind tag")
            \/ /\ mCur' = [(IF IsSome(mCur.cargo_vcs_info)
                               /\ Unwrap(mCur.cargo_vcs_info) # commit
                            THEN Println(ran, "Commit between crates.io tarball and git tag doesn't match")
                            ELSE ran)
                           EXCEPT !.commit = Some(ResolvedFromTag(commit, mCur.cargo_vcs_info))]
               /\ Goto("checkout")
       ELSE LET said == Println(cur, "Found NO tag match")
                commit == NoTagOutcome(mCur.cargo_vcs_info) IN
            IF IsSome(commit)
            THEN /\ mCur' = [said EXCEPT !.commit = commit]
                 /\ Goto("checkout")
            ELSE /\ mCur' = Println(said, "Couldn't determine commit")
                 /\ Continue
    /\ UNCHANGED <<mLockLen, mIdx, mCrates, mRepos, mBuilt, mOrder, mTagRuns>>
    /\ UNCHANGED <<rdVars, cmpVars, tgVars, obVars, uVars>>

\* main.rs 353-366: git checkout {commit}; the sequence on the working copy starts.
Checkout ==
    /\ mPc = "checkout"
    /\ LET repo_dir == Unwrap(mCur.repo_dir)
           cur == Ran(mCur, "git checkout") IN
       /\ mOrder' = Append(mOrder, <<repo_dir, mIdx>>)
       /\ \/ /\ mCur' = Println(cur, "Couldn't checkout the commit")
             /\ Continue
          \/ /\ mCur' = cur
             /\ mPc' = "submodule init"
             /\ mBusy' = mBusy \cup {<<repo_dir, mIdx>>}
             /\ UNCHANGED <<mExit, mErr>>
    /\ UNCHANGED <<mLockLen, mIdx, mCrates, mRepos, mBuilt, mTagRuns>>
    /\ UNCHANGED <<rdVars, cmpVars, tgVars, obVars, uVars>>

\* main.rs 368-410: one of git submodule init, sync, update.
Submodule(step, next) ==
    /\ mPc = "submodule " \o step
    /\ LET cur == Ran(mCur, "git submodule " \o step) IN
       \/ /\ mCur' = Println(cur, "Couldn't " \o step \o " submodules")
          /\ Continue
       \/ /\ mCur' = cur
          /\ Goto(next)
    /\ UNCHANGED <<mLockLen, mIdx, mCrates, mRepos, mBuilt, mOrder, mTagRuns>>
    /\ UNCHANGED <<rdVars, cmpVars, tgVars, obVars, uVars>>

SubmoduleInit == Submodule("init", "submodule sync")
SubmoduleSync == Submodule("sync", "submodule update")
SubmoduleUpdate == Submodule("update", "package")

\* An existence test that never finds the file.
PackageNeverExists(built, key) == FALSE

\* main.rs 416-421: package_path.try_exists(), the path made of the clone's
\* directory, the name and the version.
PackageExists(built, key) == key \in DOMAIN built

\* main.rs 416-445: cargo package, unless the .crate file exists.
Package ==
    /\ mPc = "package"
    /\ LET key == <<Unwrap(mCur.repo_dir), Unwrap(mCur.package).name>> IN
       IF PackageExists(mBuilt, key)
       THEN /\ mCur' = mCur
            /\ mBuilt' = mBuilt
            /\ Goto("compare")
       ELSE LET cur == Ran(Println(mCur, "Packaging release"), "cargo package") IN
            \/ /\ mCur' = Println(cur, "Couldn't assemble the package")
               /\ mBuilt' = mBuilt
               /\ Continue
            \/ /\ mCur' = Println(cur, "Package still somehow doesn't exist")
               /\ mBuilt' = mBuilt
               /\ Continue
            \/ /\ mCur' = cur
               /\ mBuilt' = (key :> Unwrap(mCur.commit)) @@ mBuilt
               /\ Goto("compare")
    /\ UNCHANGED <<mLockLen, mIdx, mCrates, mRepos, mOrder, mTagRuns>>
    /\ UNCHANGED <<rdVars, cmpVars, tgVars, obVars, uVars>>

\* main.rs 451-523: the digests of both archives, and the lines about them.
HashAndCompare ==
    /\ mPc = "compare"
    /\ LET key == <<Unwrap(mCur.repo_dir), Unwrap(mCur.package).name>>
           crates_io_hashes == MainHashes(ArchiveMap(Unwrap(mCur.archive)))
           our_hashes == MainHashes(ArchiveMap(BuiltArchive(mBuilt[key]))) IN
       mCur' = [mCur EXCEPT !.lines = @ \o MainCompareLines(our_hashes, crates_io_hashes),
                            !.compared = TRUE]
    /\ Continue
    /\ UNCHANGED <<mLockLen, mIdx, mCrates, mRepos, mBuilt, mOrder, mTagRuns>>
    /\ UNCHANGED <<rdVars, cmpVars, tgVars, obVars, uVars>>

(***************************************************************************)
(* main.rs: properties of the run                                           *)
(***************************************************************************)

Range(seq) == {seq[k] : k \in DOMAIN seq}

\* The errors of the setup, before the first package.
SetupErrors == {"create_dir_all", "Cargo.lock not found", "decode Cargo.lock"}

\* C1: the process ends with a failure status only for a setup error; a failure
\* about one package or repository is logged and the run goes on to the end.
C1_FailsOnlyOnSetupErrors ==
    mExit = "error" => mErr \in SetupErrors

\* The checksum step has found the cached archive's SHA-256 to differ from the
\* checksum of the package record.
ChecksumMismatched ==
    /\ mPc \notin {"idle", "setup", "source", "download", "checksum"}
    /\ IsSome(mCur.package) /\ IsSome(mCur.archive)
    /\ IsSome(Unwrap(mCur.package).checksum)
    /\ Unwrap(mCur.archive).sha # Unwrap(Unwrap(mCur.package).checksum)

\* C2: a checksum mismatch is confined to its package: no command is run for
\* it, the cached archive stays, and the run goes on with the other packages.
C2_ChecksumMismatchConfined ==
    ChecksumMismatched =>
        /\ Range(mCur.cmds) \subseteq {"GET"}
        /\ Unwrap(mCur.package).name \in DOMAIN mCrates
        /\ mExit # "error"

\* C3: on one working copy at most one checkout/build sequence is in flight,
\* the one of the package the loop is at, and the checkouts on one working copy
\* start in the order of the lock file.
C3_OneSequencePerWorkingCopy ==
    /\ \A b \in mBusy : IsSome(mCur.repo_dir) /\ b = <<Unwrap(mCur.repo_dir), mIdx>>
    /\ \A i, j \in DOMAIN mOrder :
          (i < j /\ mOrder[i][1] = mOrder[j][1]) => mOrder[i][2] < mOrder[j][2]

\* A second package is building on the working copy a first one has used.
C3_Witness ==
    /\ mPc = "package"
    /\ Len(mOrder) = 2
    /\ mOrder[1][1] = mOrder[2][1]
    /\ mBusy = {mOrder[2]}

\* The match step has found no candidate among the tags of the clone.
NoTagMatched ==
    /\ IsSome(mCur.tags)
    /\ Line("Found NO tag match") \in Range(mCur.lines)

\* C6: with no candidate among the tags the run does not fail: the commit is
\* the hint's and the checkout follows, or, without a hint, the package is
\* skipped with a line, without checkout or build, and the loop goes on.
C6_NoTagFallsBackToHint ==
    NoTagMatched =>
        /\ mExit # "error"
        /\ mCur.tag = None
        /\ IF IsSome(mCur.cargo_vcs_info)
           THEN /\ mCur.commit = mCur.cargo_vcs_info
                /\ mPc = "checkout" \/ "git checkout" \in Range(mCur.cmds)
           ELSE /\ Line("Couldn't determine commit") \in Range(mCur.lines)
                /\ mCur.commit = None
                /\ "git checkout" \notin Range(mCur.cmds)
                /\ "cargo package" \notin Range(mCur.cmds)
                /\ mPc \in {"loop", "exit"}

\* A clone without tags, a hint of c2: the checkout of c2 is next.
C6_Witness ==
    /\ NoTagMatched
    /\ mCur.tags = Some({})
    /\ mCur.commit = Some("c2")
    /\ mPc = "checkout"

\* The loop body of the package mCur is about has ended.
BodyEnded == IsSome(mCur.package) /\ mPc \in {"loop", "exit"} /\ mExit # "error"

\* The package mCur is about has been verified: its checksum step, the
\* resolution of its commit, the checkout, the build and the comparison.
Verified ==
    /\ IsSome(mCur.archive)
    /\ IsSome(mCur.commit)
    /\ "git checkout" \in Range(mCur.cmds)
    /\ IsSome(mCur.repo_dir)
    /\ <<Unwrap(mCur.repo_dir), Unwrap(mCur.package).name>> \in DOMAIN mBuilt
    /\ mCur.compared

\* C15: when a run that has completed printed no line for a package, the
\* package has been verified in full and every compared path was equal.
C15_NoLineMeansVerified ==
    (BodyEnded /\ mPc = "exit" /\ mExit = "ok" /\ mCur.lines = <<>>) => Verified

\* The lines that report progress: the download, the clone, the build.
ProgressTexts == {"Downloading", "Cloning", "Packaging release"}
DiagnosticLines(lines) == SelectSeq(lines, LAMBDA line : line.kind \notin ProgressTexts)

\* The entries of an archive that the ignore list of package.rs leaves.
NotIgnored(archive) ==
    LET all == ArchiveMap(archive) IN
    [p \in {q \in DOMAIN all : ~is_path_ignored(q)} |-> all[p]]

\* Scenario A for the package mCur is about: the checksum matches, the manifest
\* declares a repository, a tag resolves to the commit, and the rebuild at that
\* commit has the non-ignored paths and digests of the registry archive.
ScenarioA ==
    /\ BodyEnded /\ Verified
    /\ Unwrap(mCur.package).checksum = Some(Unwrap(mCur.archive).sha)
    /\ IsSome(mCur.repository)
    /\ IsSome(mCur.tag)
    /\ mCur.commit = Some(TagCommit(Unwrap(mCur.tag)))
    /\ LET built == mBuilt[<<Unwrap(mCur.repo_dir), Unwrap(mCur.package).name>>] IN
       /\ Some(built) = mCur.commit
       /\ NotIgnored(BuiltArchive(built)) = NotIgnored(Unwrap(mCur.archive))

EntriesEndingIn(archive, suffix) ==
    SelectSeq(archive.entries, LAMBDA entry : PathStrEndsWith(entry.path, suffix))

\* C17: an archive with the VCS-hint file more than once is a hard error for
\* the package whatever the entries hold, also when the first did not parse;
\* with a single hint file that does not parse there is no error and no hint.
C17_DuplicateHintIsHardError ==
    mCur.inspected =>
        LET hints == EntriesEndingIn(Unwrap(mCur.archive), ".cargo_vcs_info.json") IN
        /\ Len(hints) >= 2 =>
              mErr = ".cargo_vcs_info.json encountered multiple times"
        /\ (Len(hints) = 1 /\ hints[1].vcs = None) =>
              /\ mErr # ".cargo_vcs_info.json encountered multiple times"
              /\ mCur.cargo_vcs_info = None

\* C18: more than one manifest entry is not fatal: a line is printed and the
\* repository used for the package is the one of the first manifest entry.
C18_DuplicateManifestKeepsFirst ==
    mCur.inspected =>
        LET manifests == EntriesEndingIn(Unwrap(mCur.archive), "Cargo.toml") IN
        (Len(manifests) >= 2 /\ manifests[1].manifest.valid
            /\ IsSome(manifests[1].manifest.package)) =>
            /\ mExit # "error"
            /\ Line("Cargo.toml encountered multiple times") \in Range(mCur.lines)
            /\ mCur.repository = Unwrap(manifests[1].manifest.package).repository

\* C19: a step of the download requests the archive only when the cache has no
\* file for the name, takes the cached file as it is otherwise, puts a file at
\* the final path only when the download has succeeded, and never changes or
\* removes a file of the cache.
C19_NeverRefetched ==
    [][mPc = "download" =>
          LET name == Unwrap(mCur.package).name IN
          /\ name \in DOMAIN mCrates =>
                /\ mCur'.cmds = mCur.cmds
                /\ mCur'.archive = Some(mCrates[name])
                /\ mCrates' = mCrates
          /\ name \notin DOMAIN mCrates => "GET" \in Range(mCur'.cmds)
          /\ mPc' # "checksum" => mCrates' = mCrates
          /\ \A n \in DOMAIN mCrates : n \in DOMAIN mCrates' /\ mCrates'[n] = mCrates[n]
    ]_vars

\* The second package has the name of the first: its archive is taken from the
\* cache, without a request.
C19_Witness ==
    /\ mIdx = 2 /\ mPc = "checksum"
    /\ mCur.cmds = <<>>
    /\ mCur.archive = Some(mCrates[Unwrap(mCur.package).name])

\* The commands of a checkout and of the build after it, in their order.
CheckoutCommands ==
    <<"git checkout", "git submodule init", "git submodule sync", "git submodule update",
      "cargo package">>
\* The line of the failure of each of the four steps.
CheckoutFailures ==
    <<"Couldn't checkout the commit", "Couldn't init submodules", "Couldn't sync submodules",
      "Couldn't update submodules">>

\* C20: the commands of a checkout run in the order checkout, submodule init,
\* sync, update; a step runs only when every step before it has succeeded, and
\* the build only after the four have.
C20_CheckoutCommandOrder ==
    LET ran == SelectSeq(mCur.cmds, LAMBDA cmd : cmd \in Range(CheckoutCommands)) IN
    /\ IsPrefix(ran, CheckoutCommands)
    /\ \A k \in 1..4 :
          Line(CheckoutFailures[k]) \in Range(mCur.lines) => Len(ran) = k

\* The update of the submodules has failed after the three steps before it.
C20_Witness ==
    /\ Line("Couldn't update submodules") \in Range(mCur.lines)
    /\ "git submodule sync" \in Range(mCur.cmds)
    /\ "cargo package" \notin Range(mCur.cmds)
    /\ mPc = "loop"

\* The output path of the build of the package mCur is about.
PackageKey == <<Unwrap(mCur.repo_dir), Unwrap(mCur.package).name>>

\* C21: a step of the build invokes the build tool if and only if no file is at
\* the output path; it goes on to the comparison only with a file at that path;
\* after a failure of the tool, or a success without the file, the package is
\* left with a line, the run goes on, and nothing is digested or compared.
C21_BuildIffNoArtifact ==
    [][mPc = "package" =>
          /\ ("cargo package" \in Range(mCur'.cmds)) <=> (PackageKey \notin DOMAIN mBuilt)
          /\ PackageKey \in DOMAIN mBuilt => mBuilt' = mBuilt /\ mPc' = "compare"
          /\ mPc' = "compare" => PackageKey \in DOMAIN mBuilt'
          /\ mPc' # "compare" =>
                /\ mPc' = "loop" /\ mExit' = "running"
                /\ mBuilt' = mBuilt
                /\ ~mCur'.compared
                /\ Len(mCur'.lines) = Len(mCur.lines) + 2
    ]_vars

\* The second package finds the artifact of the first and is compared without
\* a build.
C21_Witness ==
    /\ mIdx = 2 /\ mPc = "compare"
    /\ "cargo package" \notin Range(mCur.cmds)
    /\ PackageKey \in DOMAIN mBuilt

MismatchLine == Line("Commit between crates.io tarball and git tag doesn't match")

\* C23: with a matching tag the resolved commit is the commit behind the tag,
\* with or without a hint; a hint of another commit gives one line and the
\* checkout, the build and the comparison go on, at the tag's commit.
C23_TagCommitWins ==
    (IsSome(mCur.tag) /\ IsSome(mCur.commit)) =>
        LET tag_commit == TagCommit(Unwrap(mCur.tag))
            differs == IsSome(mCur.cargo_vcs_info) /\ Unwrap(mCur.cargo_vcs_info) # tag_commit
        IN
        /\ mCur.commit = Some(tag_commit)
        /\ Len(SelectSeq(mCur.lines, LAMBDA line : line = MismatchLine))
              = (IF differs THEN 1 ELSE 0)
        /\ mExit # "error"
        /\ mPc = "checkout" \/ "git checkout" \in Range(mCur.cmds)
        /\ "cargo package" \in Range(mCur.cmds) /\ PackageKey \in DOMAIN mBuilt =>
              mBuilt[PackageKey] = tag_commit

\* The hint is c2, the tag is at c1: the package is built and compared at c1.
C23_Witness ==
    /\ IsSome(mCur.tag)
    /\ mCur.cargo_vcs_info = Some("c2")
    /\ mCur.commit = Some("c1")
    /\ MismatchLine \in Range(mCur.lines)
    /\ "cargo package" \in Range(mCur.cmds)
    /\ mCur.compared

\* C24: within one run the tags of a repository are read at most once for a
\* normalized repository key, however many packages have that key.
C24_TagsFetchedOncePerKey ==
    \A i, j \in DOMAIN mTagRuns : i < j => mTagRuns[i] # mTagRuns[j]

\* C25: the working copy used for a package is a clone of the package's own
\* normalized repository URL: two keys never have the same clone directory.
C25_OneClonePerKey ==
    (IsSome(mCur.repo_dir) /\ Unwrap(mCur.repo_dir) \in DOMAIN mRepos) =>
        mRepos[Unwrap(mCur.repo_dir)].url = UrlToString(Unwrap(mCur.url))

(***************************************************************************)
(* Specifications                                                           *)
(***************************************************************************)

InitReader == RdInit /\ CmpIdle /\ TgIdle /\ ObIdle /\ MIdle /\ UIdle
NextReader == Read /\ UNCHANGED <<cmpVars, tgVars, obVars, mVars, uVars>>
SpecReader == InitReader /\ [][NextReader]_vars

InitCompare == CmpInit /\ RdIdle /\ TgIdle /\ ObIdle /\ MIdle /\ UIdle
NextCompare ==
    \/ Compare /\ UNCHANGED <<rdVars, tgVars, obVars, mVars, uVars>>
    \/ CompareSwapped /\ UNCHANGED <<rdVars, tgVars, obVars, mVars, uVars>>
    \/ MainCompare /\ UNCHANGED <<rdVars, tgVars, obVars, mVars, uVars>>
SpecCompare == InitCompare /\ [][NextCompare]_vars

InitTags == TgInit /\ RdIdle /\ CmpIdle /\ ObIdle /\ MIdle /\ UIdle
NextTags ==
    \/ FindTag /\ UNCHANGED <<rdVars, cmpVars, obVars, mVars, uVars>>
    \/ MainFindTag /\ UNCHANGED <<rdVars, cmpVars, obVars, mVars, uVars>>
    \/ FindTagOtherBuild /\ UNCHANGED <<rdVars, cmpVars, obVars, mVars, uVars>>
SpecTags == InitTags /\ [][NextTags]_vars

InitObtain == ObInit /\ RdIdle /\ CmpIdle /\ TgIdle /\ MIdle /\ UIdle
NextObtain ==
    \E w \in Workers :
        \/ ObtainCheckDir(w) /\ UNCHANGED <<rdVars, cmpVars, tgVars, mVars, uVars>>
        \/ ObtainCreateDir(w) /\ UNCHANGED <<rdVars, cmpVars, tgVars, mVars, uVars>>
        \/ ObtainCheckFile(w) /\ UNCHANGED <<rdVars, cmpVars, tgVars, mVars, uVars>>
        \/ ObtainSend(w) /\ UNCHANGED <<rdVars, cmpVars, tgVars, mVars, uVars>>
        \/ ObtainCreateTmp(w) /\ UNCHANGED <<rdVars, cmpVars, tgVars, mVars, uVars>>
        \/ ObtainCopy(w) /\ UNCHANGED <<rdVars, cmpVars, tgVars, mVars, uVars>>
        \/ ObtainRename(w) /\ UNCHANGED <<rdVars, cmpVars, tgVars, mVars, uVars>>
SpecObtain == InitObtain /\ [][NextObtain]_vars


Init == MInit /\ RdIdle /\ CmpIdle /\ TgIdle /\ ObIdle /\ UIdle
Next ==
    \/ Setup
    \/ LoopNext
    \/ LoopEnd
    \/ CheckSource
    \/ Download
    \/ VerifyChecksum
    \/ ReadArchive
    \/ ParseRepository
    \/ Clone
    \/ GetTags
    \/ MatchTag
    \/ Checkout
    \/ SubmoduleInit
    \/ SubmoduleSync
    \/ SubmoduleUpdate
    \/ Package
    \/ HashAndCompare
Spec == Init /\ [][Next]_vars


InitUrl == UInit /\ RdIdle /\ CmpIdle /\ TgIdle /\ ObIdle /\ MIdle
NextUrl ==
    \/ TryFrom /\ UNCHANGED <<rdVars, cmpVars, tgVars, obVars, mVars>>
    \/ TryFromAgain /\ UNCHANGED <<rdVars, cmpVars, tgVars, obVars, mVars>>
    \/ TryFromVariant /\ UNCHANGED <<rdVars, cmpVars, tgVars, obVars, mVars>>
    \/ MainNormalize /\ UNCHANGED <<rdVars, cmpVars, tgVars, obVars, mVars>>
SpecUrl == InitUrl /\ [][NextUrl]_vars

====
